---- MODULE Spec2Model ----
(***************************************************************************)
(* Model of the image-classification tools (pillow/main.py, cv2/main.py,   *)
(* imageio/main.py) and of their process_images run.                       *)
(*                                                                         *)
(* A decoded picture is a record [mode, height, width, data]; data is the  *)
(* row-major sequence of pixels, each pixel a tuple of 8-bit samples in    *)
(* R,G,B(,A) order (one sample for mode "L").  Each binding sees the       *)
(* picture in its own native representation (PIL image, BGR array, RGB     *)
(* array).                                                                 *)
(***************************************************************************)
EXTENDS Integers, Sequences, FiniteSets, TLC

(***************************************************************************)
(* Bounds of the model.                                                    *)
(***************************************************************************)
\* pixels of a picture
MaxPixels == 4
\* entries of a folder
MaxFiles == 3
\* successive calls of normalize_gray_value
MaxCalls == 2

(***************************************************************************)
(* IEEE-754 binary64 arithmetic, as far as the luminance formula needs it. *)
(* Every value that occurs is a non-negative multiple of 2^-56 below 2^8,  *)
(* held as five base-2^14 limbs, least significant first; limb 5 is the    *)
(* integer part.                                                           *)
(***************************************************************************)
RECURSIVE Pow2(_)
Pow2(n) == IF n = 0 THEN 1 ELSE 2 * Pow2(n - 1)

LimbBase == Pow2(14)

\* the float literals 0.299, 0.587 and 0.114 (0x1.322d0e5604189p-2,
\* 0x1.2c8b439581062p-1, 0x1.d2f1a9fbe76c9p-4) in units of 2^-56
CoefR == <<1572, 5636, 13369, 4898, 0>>
CoefG == <<784, 11010, 6684, 9617, 0>>
CoefB == <<14025, 16121, 12713, 1867, 0>>

RECURSIVE BitLen(_)
BitLen(n) == IF n = 0 THEN 0 ELSE 1 + BitLen(n \div 2)

\* carry propagation over five limbs whose entries may exceed LimbBase
Carry(raw) ==
    LET t1 == raw[1]
        t2 == raw[2] + (t1 \div LimbBase)
        t3 == raw[3] + (t2 \div LimbBase)
        t4 == raw[4] + (t3 \div LimbBase)
        t5 == raw[5] + (t4 \div LimbBase)
    IN  <<t1 % LimbBase, t2 % LimbBase, t3 % LimbBase, t4 % LimbBase, t5>>

\* exact product of a limb value and a sample 0..255
MulSmall(a, k) == Carry(<<a[1] * k, a[2] * k, a[3] * k, a[4] * k, a[5] * k>>)

\* exact sum of two limb values
AddL(a, b) == Carry(<<a[1] + b[1], a[2] + b[2], a[3] + b[3], a[4] + b[4], a[5] + b[5]>>)

\* number of low bits a binary64 cannot keep: bit length minus 53
DropBits(a) ==
    IF a[5] > 0 THEN 3 + BitLen(a[5])
    ELSE IF a[4] >= 1024 THEN BitLen(a[4]) - 11
    ELSE 0

\* round to nearest, ties to even, to 53 significant bits
RoundD(a) ==
    LET k == DropBits(a)
        q == Pow2(k)
        low == a[1] % q
        odd == (a[1] \div q) % 2 = 1
        up == (2 * low > q) \/ (2 * low = q /\ odd)
        kept == [a EXCEPT ![1] = a[1] - low]
    IN  IF k = 0 THEN a
        ELSE IF up THEN AddL(kept, <<q, 0, 0, 0, 0>>)
        ELSE kept

FMul(c, k) == RoundD(MulSmall(c, k))
FAdd(a, b) == RoundD(AddL(a, b))
\* fused multiply-add: c*k + acc with a single rounding
FFma(c, k, acc) == RoundD(AddL(MulSmall(c, k), acc))
\* int(x) and astype(uint8) of a value in [0, 256): the integer part
Trunc(a) == a[5]

(***************************************************************************)
(* Gray values.                                                            *)
(***************************************************************************)
\* int(0.299 * r + 0.587 * g + 0.114 * b): left-to-right double arithmetic
calculate_gray_value(r, g, b) ==
    Trunc(FAdd(FAdd(FMul(CoefR, r), FMul(CoefG, g)), FMul(CoefB, b)))

\* how the platform's dot kernel accumulates a*b: separate multiply and add,
\* or contracted into fused multiply-adds
DotModes == {"mul_add", "fma"}

\* np.dot(rgb_img, [0.299, 0.587, 0.114]).astype(np.uint8) for one pixel
np_dot_gray(mode, r, g, b) ==
    IF mode = "fma"
    THEN Trunc(FFma(CoefB, b, FFma(CoefG, g, FMul(CoefR, r))))
    ELSE Trunc(FAdd(FAdd(FMul(CoefR, r), FMul(CoefG, g)), FMul(CoefB, b)))

\* cv2.cvtColor(bgr_img, cv2.COLOR_BGR2GRAY) for one 8-bit pixel: fixed point
\* with 15 fractional bits, rounded to nearest
GrayShift == 15
RY15 == 9798
GY15 == 19235
BY15 == 3735
cvtColor_BGR2GRAY(b, g, r) ==
    (b * BY15 + g * GY15 + r * RY15 + Pow2(GrayShift - 1)) \div Pow2(GrayShift)

\* floor(0.299*R + 0.587*G + 0.114*B) in exact arithmetic
ExactGray(r, g, b) == (299 * r + 587 * g + 114 * b) \div 1000

(***************************************************************************)
(* Pictures and their native representation in each binding.               *)
(***************************************************************************)
Bindings == <<"pillow", "cv2", "imageio">>

Black == <<0, 0, 0>>
White == <<255, 255, 255>>

\* the pixel values pictures are drawn from
RGBPalette == {Black, White, <<0, 0, 1>>, <<0, 0, 5>>, <<100, 150, 200>>}
RGBAPalette == {<<0, 0, 0, 255>>, <<0, 0, 0, 0>>, <<255, 255, 255, 255>>,
                <<100, 150, 200, 128>>}
GrayPalette == {<<0>>, <<1>>, <<254>>, <<255>>}

PaletteOf(mode) ==
    IF mode = "L" THEN GrayPalette
    ELSE IF mode = "RGBA" THEN RGBAPalette
    ELSE RGBPalette

Modes == {"L", "RGB", "RGBA"}

Shapes == {s \in (0..MaxPixels) \X (0..MaxPixels) : s[1] * s[2] <= MaxPixels}

PicturesOf(mode, shape) ==
    {[mode |-> mode, height |-> shape[1], width |-> shape[2], data |-> d] :
        d \in [1..(shape[1] * shape[2]) -> PaletteOf(mode)]}

Pictures == UNION {PicturesOf(m, s) : m \in Modes, s \in Shapes}

EmptyPicture == [mode |-> "RGB", height |-> 0, width |-> 0, data |-> <<>>]

Channels(mode) == IF mode = "L" THEN 1 ELSE IF mode = "RGBA" THEN 4 ELSE 3

\* numpy array of a picture: 2-D for grayscale, height x width x channels
\* otherwise; bgr says whether the colour samples are stored B,G,R(,A)
AsArray(pic, bgr) ==
    [ndim |-> IF pic.mode = "L" THEN 2 ELSE 3,
     channels |-> Channels(pic.mode),
     height |-> pic.height,
     width |-> pic.width,
     data |-> [i \in 1..Len(pic.data) |->
                 LET p == pic.data[i]
                 IN  IF pic.mode = "L" \/ ~bgr THEN p
                     ELSE IF pic.mode = "RGBA" THEN <<p[3], p[2], p[1], p[4]>>
                     ELSE <<p[3], p[2], p[1]>>]]

\* img.size
ArraySize(img) == img.height * img.width * img.channels

(***************************************************************************)
(* Labels.                                                                 *)
(***************************************************************************)
AllBlack == [kind |-> "All black", gray |-> 0]
AllWhite == [kind |-> "All white", gray |-> 0]
MixedPixels == [kind |-> "Mixed pixels", gray |-> 0]
\* f"Single color (gray value: {g})"
SingleColor(g) == [kind |-> "Single color", gray |-> g]
NoLabel == [kind |-> "none", gray |-> 0]

(***************************************************************************)
(* normalize_gray_value (cv2, imageio) and the clamp inlined in pillow.    *)
(***************************************************************************)
\* the upper end left unclamped
normalize_gray_value_255(gray_value) == IF gray_value = 0 THEN 1 ELSE gray_value

normalize_gray_value(gray_value) ==
    IF gray_value = 0 THEN 1
    ELSE IF gray_value = 255 THEN 254
    ELSE gray_value

\* the clamp left out
pillow_clamp_none(gray_value) == gray_value

pillow_clamp(gray_value) ==
    IF gray_value = 0 THEN 1
    ELSE IF gray_value = 255 THEN 254
    ELSE gray_value

(***************************************************************************)
(* detect_image_type, pillow.                                              *)
(***************************************************************************)
\* image.convert('RGB') followed by list(rgb_image.getdata())
\* four-sample pixels read from the second sample on
pillow_rgb_pixels_argb(image) ==
    [i \in 1..Len(image.data) |->
        LET p == image.data[i]
        IN  IF image.mode = "L" THEN <<p[1], p[1], p[1]>>
            ELSE IF image.mode = "RGBA" THEN <<p[2], p[3], p[4]>>
            ELSE <<p[1], p[2], p[3]>>]

pillow_rgb_pixels(image) ==
    [i \in 1..Len(image.data) |->
        LET p == image.data[i]
        IN  IF image.mode = "L" THEN <<p[1], p[1], p[1]>>
            ELSE <<p[1], p[2], p[3]>>]

pillow_detect_image_type(image) ==
    LET pixels == pillow_rgb_pixels(image)
    IN  IF pixels = <<>> THEN MixedPixels
        ELSE
        LET first_pixel == pixels[1]
            first_gray == calculate_gray_value(first_pixel[1], first_pixel[2],
                                               first_pixel[3])
            all_same == \A i \in 1..Len(pixels) : pixels[i] = first_pixel
            all_same_gray ==
                \A i \in 1..Len(pixels) :
                    calculate_gray_value(pixels[i][1], pixels[i][2],
                                         pixels[i][3]) = first_gray
        IN  IF all_same
            THEN IF first_pixel = Black THEN AllBlack
                 ELSE IF first_pixel = White THEN AllWhite
                 ELSE SingleColor(pillow_clamp(first_gray))
            ELSE IF all_same_gray
                 THEN SingleColor(pillow_clamp(first_gray))
                 ELSE MixedPixels

(***************************************************************************)
(* detect_image_type, cv2 (samples stored B,G,R).                          *)
(***************************************************************************)
\* gray_values of cv2's detect_image_type; colour arrays go through cvtColor
cv2_gray_values(img) ==
    [i \in 1..Len(img.data) |->
        LET p == img.data[i]
        IN  IF img.ndim = 2 THEN p[1]
            ELSE cvtColor_BGR2GRAY(p[1], p[2], p[3])]

\* the fallback with np.any in place of np.all: one pixel equal to the
\* first is enough
array_fallback_any(pixels, bgr) ==
    LET first_pixel == pixels[1]
        r == IF bgr THEN first_pixel[3] ELSE first_pixel[1]
        g == first_pixel[2]
        b == IF bgr THEN first_pixel[1] ELSE first_pixel[3]
    IN  IF \E i \in 1..Len(pixels) : pixels[i] = first_pixel
        THEN IF b = 0 /\ g = 0 /\ r = 0 THEN AllBlack
             ELSE IF b = 255 /\ g = 255 /\ r = 255 THEN AllWhite
             ELSE SingleColor(normalize_gray_value(calculate_gray_value(r, g, b)))
        ELSE MixedPixels

\* the identical-pixel fallback shared by the two array bindings; pixels are
\* three-sample tuples, bgr says whether blue is the first sample
array_fallback(pixels, bgr) ==
    LET first_pixel == pixels[1]
        r == IF bgr THEN first_pixel[3] ELSE first_pixel[1]
        g == first_pixel[2]
        b == IF bgr THEN first_pixel[1] ELSE first_pixel[3]
    IN  IF \A i \in 1..Len(pixels) : pixels[i] = first_pixel
        THEN IF b = 0 /\ g = 0 /\ r = 0 THEN AllBlack
             ELSE IF b = 255 /\ g = 255 /\ r = 255 THEN AllWhite
             ELSE SingleColor(normalize_gray_value(calculate_gray_value(r, g, b)))
        ELSE MixedPixels

\* the first three samples of every pixel: cvtColor(BGRA2BGR), img[:, :, :3]
DropAlpha(data) == [i \in 1..Len(data) |-> <<data[i][1], data[i][2], data[i][3]>>]

cv2_detect_image_type(img) ==
    IF ArraySize(img) = 0 THEN MixedPixels
    ELSE IF img.ndim # 2 /\ img.channels \notin {3, 4} THEN MixedPixels
    ELSE
    LET gray_values == cv2_gray_values(img)
        uniform == \A i \in 1..Len(gray_values) : gray_values[i] = gray_values[1]
        gray_value == gray_values[1]
    IN  IF uniform
        THEN IF gray_value = 0 THEN AllBlack
             ELSE IF gray_value = 255 THEN AllWhite
             ELSE SingleColor(gray_value)
        ELSE IF img.ndim # 2
             THEN array_fallback(DropAlpha(img.data), TRUE)
             ELSE MixedPixels

(***************************************************************************)
(* detect_image_type, imageio (samples stored R,G,B).                      *)
(***************************************************************************)
imageio_gray_values(img, mode) ==
    [i \in 1..Len(img.data) |->
        LET p == img.data[i]
        IN  IF img.ndim = 2 THEN p[1]
            ELSE np_dot_gray(mode, p[1], p[2], p[3])]

imageio_detect_image_type(img, mode) ==
    IF ArraySize(img) = 0 THEN MixedPixels
    ELSE IF img.ndim \notin {2, 3} THEN MixedPixels
    ELSE IF img.ndim = 3 /\ img.channels \notin {3, 4} THEN MixedPixels
    ELSE
    LET gray_values == imageio_gray_values(img, mode)
        uniform == \A i \in 1..Len(gray_values) : gray_values[i] = gray_values[1]
        gray_value == gray_values[1]
    IN  IF uniform
        THEN IF gray_value = 0 THEN AllBlack
             ELSE IF gray_value = 255 THEN AllWhite
             ELSE SingleColor(normalize_gray_value(gray_value))
        ELSE IF img.ndim # 2
             THEN array_fallback(DropAlpha(img.data), FALSE)
             ELSE MixedPixels

(***************************************************************************)
(* Folders and files of a process_images run.                              *)
(***************************************************************************)
SUPPORTED_FORMATS == {".jpg", ".jpeg", ".png", ".gif", ".bmp", ".webp", ".tiff", ".tif"}

\* str.lower() on the suffixes that occur
Lower(suffix) ==
    IF suffix = ".JPG" THEN ".jpg"
    ELSE IF suffix = ".PNG" THEN ".png"
    ELSE suffix

\* filepath.suffix.lower() in SUPPORTED_FORMATS
is_image_file(f) == Lower(f.suffix) \in SUPPORTED_FORMATS

Pic(mode, h, w, px) ==
    [mode |-> mode, height |-> h, width |-> w, data |-> [i \in 1..(h * w) |-> px]]

\* what a directory entry can be, apart from its name: a regular file with a
\* suffix whose content decodes to a picture (ok) or does not, or a
\* subdirectory
EntryKinds ==
    { [suffix |-> ".png", is_file |-> TRUE, ok |-> TRUE,
       picture |-> Pic("RGB", 2, 1, Black)],
      [suffix |-> ".JPG", is_file |-> TRUE, ok |-> TRUE,
       picture |-> Pic("L", 1, 2, <<255>>)],
      [suffix |-> ".png", is_file |-> TRUE, ok |-> FALSE, picture |-> EmptyPicture],
      [suffix |-> ".txt", is_file |-> TRUE, ok |-> TRUE,
       picture |-> Pic("RGB", 1, 1, White)],
      [suffix |-> ".png", is_file |-> FALSE, ok |-> FALSE, picture |-> EmptyPicture] }

\* file names are 1..MaxFiles; their order stands for the order of the paths
FileNames == 1..MaxFiles

Entry(n, k) == [name |-> n, suffix |-> k.suffix, is_file |-> k.is_file,
                ok |-> k.ok, picture |-> k.picture]

\* the possible contents of a directory: at most one entry per name
Directories ==
    UNION { { {Entry(n, f[n]) : n \in names} : f \in [names -> EntryKinds] } :
            names \in SUBSET FileNames }

FolderKinds == {"missing", "not_dir", "dir"}

\* every order in which folder.iterdir() may yield a set of entries
Orders(S) ==
    {q \in [1..Cardinality(S) -> S] : \A i, j \in 1..Cardinality(S) : i # j => q[i] # q[j]}

\* [f for f in folder.iterdir() if f.is_file() and is_image_file(f)]
RECURSIVE image_entries(_)
image_entries(q) ==
    IF q = <<>> THEN <<>>
    ELSE IF Head(q).is_file /\ is_image_file(Head(q))
         THEN <<Head(q)>> \o image_entries(Tail(q))
         ELSE image_entries(Tail(q))

\* sorted(image_files): paths of one folder order by name
RECURSIVE Insert(_, _)
Insert(q, x) ==
    IF q = <<>> THEN <<x>>
    ELSE IF x.name < Head(q).name THEN <<x>> \o q
    ELSE <<Head(q)>> \o Insert(Tail(q), x)

\* the list left in the order iterdir() yielded
sorted_none(q) == q

RECURSIVE sorted(_)
sorted(q) == IF q = <<>> THEN <<>> ELSE Insert(sorted(Tail(q)), Head(q))

\* get_image_files once the folder is known to be a directory; listing is the
\* order iterdir() yielded
get_image_files(listing) == sorted(image_entries(listing))

(***************************************************************************)
(* process_image: decode one file and classify it.  The result is          *)
(* [ok, filename, width, height, image_type]; ok = FALSE stands for None.  *)
(***************************************************************************)
NoResult == [ok |-> FALSE, filename |-> 0, width |-> 0, height |-> 0,
             image_type |-> NoLabel]

\* cv2.imread(path) with the default flag: always three channels, B,G,R
cv2_imread(pic) ==
    [ndim |-> 3, channels |-> 3, height |-> pic.height, width |-> pic.width,
     data |-> [i \in 1..Len(pic.data) |->
                 LET p == pic.data[i]
                 IN  IF pic.mode = "L" THEN <<p[1], p[1], p[1]>>
                     ELSE <<p[3], p[2], p[1]>>]]

process_image(b, f, mode) ==
    IF ~f.ok THEN NoResult
    ELSE IF b = "pillow"
    THEN [ok |-> TRUE, filename |-> f.name,
          width |-> f.picture.width, height |-> f.picture.height,
          image_type |-> pillow_detect_image_type(f.picture)]
    ELSE IF b = "cv2"
    THEN LET img == cv2_imread(f.picture)
         IN  [ok |-> TRUE, filename |-> f.name,
              width |-> img.width, height |-> img.height,
              image_type |-> cv2_detect_image_type(img)]
    ELSE LET img == AsArray(f.picture, FALSE)
         IN  IF ArraySize(img) = 0 THEN NoResult
             ELSE [ok |-> TRUE, filename |-> f.name,
                   width |-> img.width, height |-> img.height,
                   image_type |-> imageio_detect_image_type(img, mode)]

(***************************************************************************)
(* Output lines.                                                           *)
(***************************************************************************)
\* f"{filename} ({width}x{height}): {image_type}"
ResultLine(r) == [kind |-> "result", filename |-> r.filename, width |-> r.width,
                  height |-> r.height, image_type |-> r.image_type]
OtherLine(kind, n) == [kind |-> kind, filename |-> n, width |-> 0, height |-> 0,
                       image_type |-> NoLabel]
\* f"Total processing time: {processing_time_ms:.2f} milliseconds"
TimeLine == OtherLine("time", 0)
\* "Error: Folder ... does not exist." / "Error: ... is not a directory."
FolderErrorLine == OtherLine("folder_error", 0)
\* "No supported image files found in ..." and "Supported formats: ..."
NoFilesLines == <<OtherLine("no_files", 0), OtherLine("formats", 0)>>
\* f"Error processing {image_path.name}: ..." on the error stream
ErrorLine(n) == OtherLine("error", n)

\* TIME_PATTERN.search(output) of the benchmark driver finds a match
TIME_PATTERN_matches(output) == \E i \in 1..Len(output) : output[i].kind = "time"

(***************************************************************************)
(* State.                                                                  *)
(***************************************************************************)
VARIABLES
    picture,      \* the decoded picture handed to detect_image_type
    dot_mode,     \* how this platform's np.dot accumulates
    label,        \* label[b]: what binding b returned for picture, or NoLabel
    gray_value,   \* the argument of normalize_gray_value
    normalized,   \* results of successive normalize_gray_value calls
    clamped,      \* result of pillow's inlined clamp, -1 before it ran
    binding,      \* the tool whose process_images runs
    folder_kind,  \* what the folder argument names
    entries,      \* the entries of the folder
    pc,           \* where the run of process_images stands
    image_files,  \* get_image_files' return value
    idx,          \* files of image_files handed to process_image so far
    results,      \* the results list
    shown,        \* results displayed so far
    stdout,       \* lines printed to standard output
    stderr,       \* lines printed to the error stream
    exit_code,    \* process exit status, -1 while running
    bench_pc,     \* where the benchmark driver stands
    sol,          \* index in SOLUTIONS of the solution being run
    run,          \* number of the next run of that solution
    times,        \* the times list of that solution
    all_results,  \* the results recorded per solution, in insertion order
    attempts,     \* history: every call of run_solution and how it ended
    solution_averages,  \* the ranking (name, average, successful runs)
    report        \* the markdown report: its table and its detail sections

detectVars == <<picture, label>>
normVars == <<gray_value, normalized, clamped>>
runVars == <<binding, folder_kind, entries, pc, image_files, idx, results, shown,
             stdout, stderr, exit_code>>
benchVars == <<bench_pc, sol, run, times, all_results, attempts,
               solution_averages, report>>
vars == <<picture, dot_mode, label, gray_value, normalized, clamped, binding,
          folder_kind, entries, pc, image_files, idx, results, shown, stdout,
          stderr, exit_code, bench_pc, sol, run, times, all_results, attempts,
          solution_averages, report>>

BindingSet == {Bindings[i] : i \in 1..Len(Bindings)}

\* the parts of the state a specification does not use
DetectIdle == picture = EmptyPicture /\ label = [b \in BindingSet |-> NoLabel]
NormIdle == gray_value = 0 /\ normalized = <<>> /\ clamped = -1
RunIdle ==
    /\ binding = "pillow"
    /\ folder_kind = "missing"
    /\ entries = {}
    /\ pc = "idle"
    /\ image_files = <<>>
    /\ idx = 0
    /\ results = <<>>
    /\ shown = 0
    /\ stdout = <<>>
    /\ stderr = <<>>
    /\ exit_code = -1

NoReport == [table |-> <<>>, details |-> <<>>]
BenchIdle ==
    /\ bench_pc = "idle"
    /\ sol = 0
    /\ run = 0
    /\ times = <<>>
    /\ all_results = <<>>
    /\ attempts = <<>>
    /\ solution_averages = <<>>
    /\ report = NoReport

(***************************************************************************)
(* Classifying one picture with the three tools.                           *)
(***************************************************************************)
InitDetect ==
    /\ picture \in Pictures
    /\ dot_mode \in DotModes
    /\ label = [b \in BindingSet |-> NoLabel]
    /\ NormIdle
    /\ RunIdle
    /\ BenchIdle

\* the three tools classify the same picture, in the order the benchmark
\* driver runs them
DetectPillow ==
    /\ label["pillow"] = NoLabel
    /\ label' = [label EXCEPT !["pillow"] = pillow_detect_image_type(picture)]
    /\ UNCHANGED <<picture, dot_mode, normVars, runVars, benchVars>>

DetectCv2 ==
    /\ label["pillow"] # NoLabel
    /\ label["cv2"] = NoLabel
    /\ label' = [label EXCEPT !["cv2"] = cv2_detect_image_type(AsArray(picture, TRUE))]
    /\ UNCHANGED <<picture, dot_mode, normVars, runVars, benchVars>>

DetectImageio ==
    /\ label["cv2"] # NoLabel
    /\ label["imageio"] = NoLabel
    /\ label' = [label EXCEPT !["imageio"] =
                    imageio_detect_image_type(AsArray(picture, FALSE), dot_mode)]
    /\ UNCHANGED <<picture, dot_mode, normVars, runVars, benchVars>>

NextDetect == DetectPillow \/ DetectCv2 \/ DetectImageio

SpecDetect == InitDetect /\ [][NextDetect]_vars
(***************************************************************************)
(* Normalizing one gray value.                                             *)
(***************************************************************************)
InitNormalize ==
    /\ gray_value \in 0..255
    /\ normalized = <<>>
    /\ clamped = -1
    /\ dot_mode = "mul_add"
    /\ DetectIdle
    /\ RunIdle
    /\ BenchIdle

\* normalize_gray_value applied to gray_value, then to its own result
Normalize ==
    /\ Len(normalized) < MaxCalls
    /\ normalized' = Append(normalized,
                            normalize_gray_value(IF normalized = <<>> THEN gray_value
                                                 ELSE normalized[Len(normalized)]))
    /\ UNCHANGED <<gray_value, clamped, dot_mode, detectVars, runVars, benchVars>>

\* the clamp of pillow's detect_image_type applied to gray_value
PillowClamp ==
    /\ clamped = -1
    /\ clamped' = pillow_clamp(gray_value)
    /\ UNCHANGED <<gray_value, normalized, dot_mode, detectVars, runVars, benchVars>>

NextNormalize == Normalize \/ PillowClamp

SpecNormalize == InitNormalize /\ [][NextNormalize]_vars

(***************************************************************************)
(* One run of process_images.                                              *)
(***************************************************************************)
InitRun ==
    /\ binding \in BindingSet
    /\ dot_mode \in DotModes
    /\ folder_kind \in FolderKinds
    /\ entries \in (IF folder_kind = "dir" THEN Directories ELSE {{}})
    /\ pc = "start"
    /\ image_files = <<>>
    /\ idx = 0
    /\ results = <<>>
    /\ shown = 0
    /\ stdout = <<>>
    /\ stderr = <<>>
    /\ exit_code = -1
    /\ DetectIdle
    /\ NormIdle
    /\ BenchIdle

\* get_image_files: the folder is missing or no directory; sys.exit(1)
ExitOnBadFolder ==
    /\ pc = "start"
    /\ folder_kind # "dir"
    /\ stdout' = Append(stdout, FolderErrorLine)
    /\ exit_code' = 1
    /\ pc' = "exited"
    /\ UNCHANGED <<binding, folder_kind, entries, image_files, idx, results, shown,
                   stderr, dot_mode, detectVars, normVars, benchVars>>

\* process_images: no supported image file; print the notice and return
ReturnOnNoFiles ==
    /\ pc = "start"
    /\ folder_kind = "dir"
    /\ \E listing \in Orders(entries) :
          /\ get_image_files(listing) = <<>>
          /\ image_files' = get_image_files(listing)
    /\ stdout' = stdout \o NoFilesLines
    /\ exit_code' = 0
    /\ pc' = "done"
    /\ UNCHANGED <<binding, folder_kind, entries, idx, results, shown, stderr,
                   dot_mode, detectVars, normVars, benchVars>>

\* process_images: the sorted list of image files; the timer starts
BeginLoop ==
    /\ pc = "start"
    /\ folder_kind = "dir"
    /\ \E listing \in Orders(entries) :
          /\ get_image_files(listing) # <<>>
          /\ image_files' = get_image_files(listing)
    /\ pc' = "loop"
    /\ UNCHANGED <<binding, folder_kind, entries, idx, results, shown, stdout,
                   stderr, exit_code, dot_mode, detectVars, normVars, benchVars>>

\* one iteration of the loop over image_files
ProcessNext ==
    /\ pc = "loop"
    /\ idx < Len(image_files)
    /\ LET f == image_files[idx + 1]
           result == process_image(binding, f, dot_mode)
       IN  /\ results' = IF result.ok THEN Append(results, result) ELSE results
           /\ stderr' = IF result.ok THEN stderr ELSE Append(stderr, ErrorLine(f.name))
    /\ idx' = idx + 1
    /\ UNCHANGED <<binding, folder_kind, entries, pc, image_files, shown, stdout,
                   exit_code, dot_mode, detectVars, normVars, benchVars>>

\* one iteration of the loop that displays the results
DisplayResult ==
    /\ pc = "loop"
    /\ idx = Len(image_files)
    /\ shown < Len(results)
    /\ stdout' = Append(stdout, ResultLine(results[shown + 1]))
    /\ shown' = shown + 1
    /\ UNCHANGED <<binding, folder_kind, entries, pc, image_files, idx, results,
                   stderr, exit_code, dot_mode, detectVars, normVars, benchVars>>

\* process_images returns without printing the processing time
DisplayTime_silent ==
    /\ pc = "loop"
    /\ idx = Len(image_files)
    /\ shown = Len(results)
    /\ exit_code' = 0
    /\ pc' = "done"
    /\ UNCHANGED <<binding, folder_kind, entries, image_files, idx, results, shown,
                   stdout, stderr, dot_mode, detectVars, normVars, benchVars>>

\* the processing time is printed and process_images returns
DisplayTime ==
    /\ pc = "loop"
    /\ idx = Len(image_files)
    /\ shown = Len(results)
    /\ stdout' = Append(stdout, TimeLine)
    /\ exit_code' = 0
    /\ pc' = "done"
    /\ UNCHANGED <<binding, folder_kind, entries, image_files, idx, results, shown,
                   stderr, dot_mode, detectVars, normVars, benchVars>>

NextRun ==
    \/ ExitOnBadFolder
    \/ ReturnOnNoFiles
    \/ BeginLoop
    \/ ProcessNext
    \/ DisplayResult
    \/ DisplayTime

SpecRun == InitRun /\ [][NextRun]_vars
(***************************************************************************)
(* The benchmark driver (benchmark.py).                                    *)
(***************************************************************************)
\* runs per solution; the driver's value is 10
NUM_RUNS == 2

\* of the five entries of SOLUTIONS the model keeps one Go solution, with
\* its fallback command, and one Python solution, in the order of the dict
SOLUTIONS ==
    << [name |-> "goimage", type |-> "go", fallback |-> TRUE],
       [name |-> "pillow", type |-> "python", fallback |-> FALSE] >>

\* analysis times a tool may report, in milliseconds
Times == {1, 2}

\* the text captured from one execution: who produced it, its lines, and
\* the number its timing line carries
Captured(name, n, lines, ms) == [producer |-> <<name, n>>, lines |-> lines, ms |-> ms]
NoOutput == Captured("", 0, <<>>, 0)

\* the number of a timing line that float() rejects, such as 1.2.3, which
\* the pattern ([\d.]+) accepts
Malformed == 0 - 1

\* what subprocess.run of run n of a solution can lead to: the 60 second
\* timeout, an exception on launch, or an exit with captured output that
\* has no timing line, a timing line with a malformed number, or a timing
\* line with a time
Outcomes(name, n) ==
    {[kind |-> "timeout", output |-> NoOutput],
     [kind |-> "error", output |-> NoOutput],
     [kind |-> "exit", output |-> Captured(name, n, NoFilesLines, 0)],
     [kind |-> "exit", output |-> Captured(name, n, <<TimeLine>>, Malformed)]}
    \cup {[kind |-> "exit", output |-> Captured(name, n, <<TimeLine>>, t)] : t \in Times}

\* the environment's view of an outcome: did the run report a time
Reported(outcome) ==
    /\ outcome.kind = "exit"
    /\ TIME_PATTERN_matches(outcome.output.lines)
    /\ outcome.output.ms # Malformed

\* the command run_solution launches; "none" when a Go executable is missing
\* and the configuration has no fallback
command_of(config, exists) ==
    IF config.type = "go" /\ ~exists
    THEN IF config.fallback THEN "fallback" ELSE "none"
    ELSE "command"

\* (None, None)
NoneNone == [raised |-> FALSE, ok |-> FALSE, output |-> NoOutput, time |-> 0]

\* run_solution with the try block left out: timeouts and launch errors
\* propagate to the caller
run_solution_no_except(config, exists, outcome) ==
    IF command_of(config, exists) = "none" THEN NoneNone
    ELSE IF outcome.kind \in {"timeout", "error"}
    THEN [raised |-> TRUE, ok |-> FALSE, output |-> NoOutput, time |-> 0]
    ELSE IF TIME_PATTERN_matches(outcome.output.lines)
    THEN IF outcome.output.ms = Malformed
         THEN [raised |-> TRUE, ok |-> FALSE, output |-> NoOutput, time |-> 0]
         ELSE [raised |-> FALSE, ok |-> TRUE, output |-> outcome.output,
               time |-> outcome.output.ms]
    ELSE NoneNone

\* run_solution: (output, analysis_time) or (None, None); raised says
\* whether an exception leaves the function
run_solution(config, exists, outcome) ==
    IF command_of(config, exists) = "none" THEN NoneNone
    ELSE IF outcome.kind = "timeout" THEN NoneNone
    ELSE IF outcome.kind = "error" THEN NoneNone
    ELSE IF TIME_PATTERN_matches(outcome.output.lines)
    THEN IF outcome.output.ms = Malformed
         THEN NoneNone
         ELSE [raised |-> FALSE, ok |-> TRUE, output |-> outcome.output,
               time |-> outcome.output.ms]
    ELSE NoneNone

\* all_results is a defaultdict(list): a key exists once something was
\* appended under it; the sequence keeps the insertion order of the keys
HasKey(all, name) == \E i \in 1..Len(all) : all[i].name = name
ResultsOf(all, name) ==
    IF HasKey(all, name)
    THEN LET i == CHOOSE i \in 1..Len(all) : all[i].name = name IN all[i].results
    ELSE <<>>

\* all_results[solution_name].append(rec)
append_result(all, name, rec) ==
    IF HasKey(all, name)
    THEN [i \in 1..Len(all) |->
            IF all[i].name = name
            THEN [all[i] EXCEPT !.results = Append(@, rec)]
            ELSE all[i]]
    ELSE Append(all, [name |-> name, results |-> <<rec>>])

\* [r['time'] for r in results]
TimesOf(rs) == [i \in 1..Len(rs) |-> rs[i].time]

RECURSIVE SumSeq(_)
SumSeq(q) == IF q = <<>> THEN 0 ELSE Head(q) + SumSeq(Tail(q))

\* the mean with the failed runs counted in
mean_all_runs(ts) == [sum |-> SumSeq(ts), n |-> NUM_RUNS]

\* sum(times) / len(times), kept as the fraction sum/n; n = 0 is a division
\* by zero
mean(ts) == [sum |-> SumSeq(ts), n |-> Len(ts)]

\* a < b for two means
LessAvg(a, b) == a.sum * b.n < b.sum * a.n

\* min(times), max(times)
MinOf(ts) == CHOOSE x \in {ts[i] : i \in 1..Len(ts)} : \A i \in 1..Len(ts) : x <= ts[i]
MaxOf(ts) == CHOOSE x \in {ts[i] : i \in 1..Len(ts)} : \A i \in 1..Len(ts) : x >= ts[i]

\* list.sort(key=lambda x: x[1]): stable, ascending by average
RECURSIVE InsertAvg(_, _)
InsertAvg(q, x) ==
    IF q = <<>> THEN <<x>>
    ELSE IF LessAvg(Head(q).avg, x.avg) THEN <<Head(q)>> \o InsertAvg(Tail(q), x)
    ELSE <<x>> \o q

RECURSIVE sort_by_avg(_)
sort_by_avg(q) == IF q = <<>> THEN <<>> ELSE InsertAvg(sort_by_avg(Tail(q)), Head(q))

\* the list main builds from all_results.items() before it sorts it
RECURSIVE averages_of(_)
averages_of(all) ==
    IF all = <<>> THEN <<>>
    ELSE LET results_ == Head(all).results
             ts == TimesOf(results_)
         IN  (IF results_ # <<>>
              THEN <<[name |-> Head(all).name, avg |-> mean(ts), successful |-> Len(ts)]>>
              ELSE <<>>) \o averages_of(Tail(all))

\* one detail section of the report
Section(name, results_) ==
    LET ts == TimesOf(results_)
    IN  [name |-> name,
         successful |-> Len(ts),
         avg |-> mean(ts),
         min |-> MinOf(ts),
         max |-> MaxOf(ts),
         rows |-> [i \in 1..Len(results_) |-> <<results_[i].run, results_[i].time>>],
         example_title |-> 1,
         example |-> results_[1].output]

\* the detail sections without the tests for missing or empty results: a
\* solution with no result gets a section whose mean divides by zero
RECURSIVE sections_of_unguarded(_, _)
sections_of_unguarded(all, i) ==
    IF i > Len(SOLUTIONS) THEN <<>>
    ELSE LET name == SOLUTIONS[i].name
             results_ == ResultsOf(all, name)
         IN  <<IF results_ = <<>>
               THEN [name |-> name, successful |-> 0, avg |-> mean(<<>>),
                     min |-> 0, max |-> 0, rows |-> <<>>, example_title |-> 1,
                     example |-> NoOutput]
               ELSE Section(name, results_)>> \o sections_of_unguarded(all, i + 1)

\* the detail sections, one per entry of SOLUTIONS that has results
RECURSIVE sections_of(_, _)
sections_of(all, i) ==
    IF i > Len(SOLUTIONS) THEN <<>>
    ELSE LET name == SOLUTIONS[i].name
         IN  (IF ~HasKey(all, name) \/ ResultsOf(all, name) = <<>>
              THEN <<>>
              ELSE IF TimesOf(ResultsOf(all, name)) = <<>> THEN <<>>
              ELSE <<Section(name, ResultsOf(all, name))>>) \o sections_of(all, i + 1)

\* generate_markdown_report: the table rows and the detail sections
generate_markdown_report(all, averages) ==
    [table |-> averages, details |-> sections_of(all, 1)]

\* a mean over an empty list among these entries: ZeroDivisionError
DividesByZero(q) == \E i \in 1..Len(q) : q[i].avg.n = 0

InitBench ==
    /\ bench_pc = "run"
    /\ sol = 1
    /\ run = 1
    /\ times = <<>>
    /\ all_results = <<>>
    /\ attempts = <<>>
    /\ solution_averages = <<>>
    /\ report = NoReport
    /\ dot_mode = "mul_add"
    /\ DetectIdle
    /\ NormIdle
    /\ RunIdle

\* one pass of the loop over range(1, NUM_RUNS + 1): run_solution is called
\* and its result recorded or dropped
RunOnce ==
    /\ bench_pc = "run"
    /\ \E exists \in BOOLEAN, outcome \in Outcomes(SOLUTIONS[sol].name, run) :
          LET config == SOLUTIONS[sol]
              r == run_solution(config, exists, outcome)
              rec == [run |-> run, output |-> r.output, time |-> r.time]
          IN  /\ attempts' = Append(attempts,
                                    [name |-> config.name, run |-> run,
                                     reported |-> Reported(outcome),
                                     ms |-> IF Reported(outcome) THEN outcome.output.ms
                                            ELSE 0])
              /\ IF r.raised
                 THEN /\ bench_pc' = "aborted"
                      /\ UNCHANGED <<run, times, all_results>>
                 ELSE /\ times' = IF r.ok THEN Append(times, r.time) ELSE times
                      /\ all_results' = IF r.ok
                                        THEN append_result(all_results, config.name, rec)
                                        ELSE all_results
                      /\ IF run < NUM_RUNS
                         THEN run' = run + 1 /\ bench_pc' = "run"
                         ELSE run' = run /\ bench_pc' = "summary"
    /\ UNCHANGED <<sol, solution_averages, report, dot_mode, detectVars, normVars,
                   runVars>>

\* the summary of one solution is printed when it has times; the loop over
\* SOLUTIONS goes on
SolutionSummary ==
    /\ bench_pc = "summary"
    /\ IF times # <<>> /\ mean(times).n = 0
       THEN bench_pc' = "aborted" /\ UNCHANGED <<sol, run, times>>
       ELSE IF sol < Len(SOLUTIONS)
       THEN sol' = sol + 1 /\ run' = 1 /\ times' = <<>> /\ bench_pc' = "run"
       ELSE bench_pc' = "rank" /\ UNCHANGED <<sol, run, times>>
    /\ UNCHANGED <<all_results, attempts, solution_averages, report, dot_mode,
                   detectVars, normVars, runVars>>

\* the averages are computed, sorted and printed
Rank ==
    /\ bench_pc = "rank"
    /\ IF DividesByZero(averages_of(all_results))
       THEN bench_pc' = "aborted" /\ UNCHANGED solution_averages
       ELSE /\ solution_averages' = sort_by_avg(averages_of(all_results))
            /\ bench_pc' = "report"
    /\ UNCHANGED <<sol, run, times, all_results, attempts, report, dot_mode,
                   detectVars, normVars, runVars>>

\* the markdown report is generated and written
WriteReport ==
    /\ bench_pc = "report"
    /\ LET md == generate_markdown_report(all_results, solution_averages)
       IN  IF DividesByZero(md.details)
           THEN bench_pc' = "aborted" /\ UNCHANGED report
           ELSE report' = md /\ bench_pc' = "done"
    /\ UNCHANGED <<sol, run, times, all_results, attempts, solution_averages,
                   dot_mode, detectVars, normVars, runVars>>

NextBench == RunOnce \/ SolutionSummary \/ Rank \/ WriteReport

SpecBench == InitBench /\ [][NextBench]_vars

\* main is one thread of control: while it has a statement to execute it
\* executes it
SpecBenchFair == SpecBench /\ WF_vars(NextBench)

(***************************************************************************)
(* Properties of detect_image_type.                                        *)
(***************************************************************************)
Done(b) == label[b] # NoLabel
NonEmpty == picture.data # <<>>

\* the gray value of a pixel as the specification defines it: the sample of
\* a grayscale picture, else the luminance truncated to an integer
ExactGrayOf(p) == IF picture.mode = "L" THEN p[1] ELSE ExactGray(p[1], p[2], p[3])
\* the colour of a pixel, alpha left out
ColourOf(p) == IF picture.mode = "L" THEN <<p[1]>> ELSE <<p[1], p[2], p[3]>>

GrayUniform ==
    \A i \in 1..Len(picture.data) :
        ExactGrayOf(picture.data[i]) = ExactGrayOf(picture.data[1])
SharedGray == ExactGrayOf(picture.data[1])
ColourUniform ==
    \A i \in 1..Len(picture.data) : ColourOf(picture.data[i]) = ColourOf(picture.data[1])
AllPixels(c) == \A i \in 1..Len(picture.data) : ColourOf(picture.data[i]) = c

\* C1: whatever the picture (zero-sized ones included) and whichever the
\* binding, the label is one of 'All black', 'All white', 'Single color
\* (gray value: g)' and 'Mixed pixels', and the g of 'Single color' is an
\* integer from 1 to 254.
C1_LabelInvariant ==
    \A b \in BindingSet :
        Done(b) =>
            /\ label[b].kind \in {"All black", "All white", "Single color", "Mixed pixels"}
            /\ label[b].kind = "Single color" =>
                   label[b].gray \in Int /\ 1 <= label[b].gray /\ label[b].gray <= 254
            /\ label[b].kind # "Single color" => label[b].gray = 0

\* the three tools have classified a picture whose gray value 0 the clamp
\* had to lift to 1
C1_Witness ==
    /\ Done("imageio")
    /\ picture.mode = "RGB"
    /\ NonEmpty
    /\ AllPixels(<<0, 0, 1>>)
    /\ label["pillow"] = SingleColor(1)

\* C2: a non-empty picture whose pixels share one gray value is 'All black'
\* when that value is 0 and 'All white' when it is 255, in every binding,
\* whatever the RGB triples.
C2_SharedGrayExtremes ==
    \A b \in BindingSet :
        (Done(b) /\ NonEmpty /\ GrayUniform) =>
            /\ SharedGray = 0 => label[b] = AllBlack
            /\ SharedGray = 255 => label[b] = AllWhite

\* C3: a non-empty picture whose every pixel is RGB (0,0,0), or gray 0, is
\* 'All black' in every binding, with or without alpha.
C3_AllBlack ==
    \A b \in BindingSet :
        (Done(b) /\ NonEmpty /\ (AllPixels(Black) \/ AllPixels(<<0>>))) =>
            label[b] = AllBlack

\* a black picture of four pixels with an alpha channel, one pixel of it
\* transparent, classified by the three tools
C3_Witness ==
    /\ Done("pillow") /\ Done("cv2") /\ Done("imageio")
    /\ picture.mode = "RGBA"
    /\ Len(picture.data) = 4
    /\ AllPixels(Black)
    /\ \E i \in 1..4 : picture.data[i][4] = 0
    /\ \E i \in 1..4 : picture.data[i][4] = 255

\* C4: a non-empty picture whose every pixel is RGB (255,255,255), or gray
\* 255, is 'All white' in every binding.
C4_AllWhite ==
    \A b \in BindingSet :
        (Done(b) /\ NonEmpty /\ (AllPixels(White) \/ AllPixels(<<255>>))) =>
            label[b] = AllWhite

\* C5: a non-empty colour picture whose pixels are one RGB triple with
\* truncated luminance g, 1 <= g <= 254, is 'Single color (gray value: g)'
\* in every binding.
C5_TruncatedLuminance ==
    \A b \in BindingSet :
        (/\ Done(b)
         /\ NonEmpty
         /\ picture.mode # "L"
         /\ ColourUniform
         /\ 1 <= SharedGray
         /\ SharedGray <= 254) =>
            label[b] = SingleColor(SharedGray)

\* C6: a non-empty picture is 'Mixed pixels' exactly when its pixels are
\* neither all of one gray value nor all one RGB triple.
C6_MixedIff ==
    \A b \in BindingSet :
        (Done(b) /\ NonEmpty) =>
            (label[b] = MixedPixels <=> (~GrayUniform /\ ~ColourUniform))

\* C7: the three tools give one RGB picture the same label.
C7_BindingsAgree ==
    (Done("pillow") /\ Done("cv2") /\ Done("imageio") /\ picture.mode = "RGB") =>
        (label["pillow"] = label["cv2"] /\ label["cv2"] = label["imageio"])

(***************************************************************************)
(* Properties of normalize_gray_value.                                     *)
(***************************************************************************)
InRange(x) == 1 <= x /\ x <= 254

\* C8: normalize_gray_value maps 0 to 1, 255 to 254 and every other value
\* of 0..255 to itself, so its result lies in 1..254 and a second call
\* changes nothing; pillow's inlined clamp yields the same value.
C8_Normalize ==
    /\ Len(normalized) >= 1 =>
          /\ gray_value = 0 => normalized[1] = 1
          /\ gray_value = 255 => normalized[1] = 254
          /\ InRange(gray_value) => normalized[1] = gray_value
          /\ InRange(normalized[1])
          /\ \A i \in 1..Len(normalized) : normalized[i] = normalized[1]
    /\ clamped # -1 =>
          /\ gray_value = 0 => clamped = 1
          /\ gray_value = 255 => clamped = 254
          /\ InRange(gray_value) => clamped = gray_value
    /\ (Len(normalized) >= 1 /\ clamped # -1) => clamped = normalized[1]

\* 255 normalized twice and clamped by pillow
C8_Witness ==
    /\ gray_value = 255
    /\ Len(normalized) >= 2
    /\ normalized[2] = 254
    /\ clamped = 254

(***************************************************************************)
(* Properties of process_images.                                           *)
(***************************************************************************)
\* the regular files of the folder with a supported suffix
SupportedFiles == {e \in entries : e.is_file /\ Lower(e.suffix) \in SUPPORTED_FORMATS}
\* those of them that decode
Decodable == {e \in SupportedFiles : e.ok}
NamesOf(S) == {e.name : e \in S}

\* the members of a set of names in ascending order
Ascending(S) ==
    CHOOSE q \in [1..Cardinality(S) -> S] :
        \A i, j \in 1..Cardinality(S) : i < j => q[i] < q[j]

LinesOf(out, kind) == SelectSeq(out, LAMBDA l : l.kind = kind)
FileNamesOf(lines) == [i \in 1..Len(lines) |-> lines[i].filename]
TimeCount == Len(LinesOf(stdout, "time"))

\* standard output is one result line per decoded image, each with the
\* name and the size of its file, and then the timing line
ResultsThenTime ==
    /\ Len(stdout) = Cardinality(Decodable) + 1
    /\ stdout[Len(stdout)] = TimeLine
    /\ \A i \in 1..(Len(stdout) - 1) :
          /\ stdout[i].kind = "result"
          /\ \E e \in Decodable :
                /\ e.name = stdout[i].filename
                /\ e.picture.width = stdout[i].width
                /\ e.picture.height = stdout[i].height
    /\ \A i, j \in 1..(Len(stdout) - 1) : i # j => stdout[i].filename # stdout[j].filename
    /\ TIME_PATTERN_matches(stdout)

\* C9 as stated: every run on a directory, one without supported image
\* files included, ends with the result lines followed by one timing line.
C9_TimingLineAlways == (pc = "done" /\ folder_kind = "dir") => ResultsThenTime

\* C9: a run on a directory that holds at least one supported image file
\* prints one result line per decoded image and then the timing line, once
\* and last, also when every image fails to decode; a run on a directory
\* without supported image files prints the notice and no timing line.
C9_TimingLine ==
    /\ (pc = "done" /\ SupportedFiles # {}) => ResultsThenTime
    /\ (pc = "done" /\ SupportedFiles = {}) =>
          (stdout = NoFilesLines /\ ~TIME_PATTERN_matches(stdout))
    /\ TimeCount <= 1
    /\ pc # "done" => TimeCount = 0

\* a finished cv2 run in which one image decoded and another did not
C9_Witness ==
    /\ pc = "done"
    /\ binding = "cv2"
    /\ Cardinality(Decodable) >= 1
    /\ SupportedFiles # Decodable
    /\ stdout[Len(stdout)] = TimeLine

\* C10: an image that fails to decode is skipped and reported on the error
\* stream; the run goes on, hands every image file to process_image, and
\* prints the result lines of the images that decoded in ascending order of
\* file name.
C10_SkipFailed ==
    /\ pc = "loop" =>
          /\ exit_code = -1
          /\ Len(results) + Len(stderr) = idx
    /\ (pc = "done" /\ SupportedFiles # {}) =>
          /\ exit_code = 0
          /\ idx = Cardinality(SupportedFiles)
          /\ FileNamesOf(LinesOf(stdout, "result")) = Ascending(NamesOf(Decodable))
          /\ FileNamesOf(stderr) = Ascending(NamesOf(SupportedFiles \ Decodable))

\* a finished run in which the first image file failed and two later ones
\* were classified
C10_Witness ==
    /\ pc = "done"
    /\ Cardinality(Decodable) >= 2
    /\ \E e \in SupportedFiles \ Decodable : \A d \in Decodable : e.name < d.name
    /\ Len(LinesOf(stdout, "result")) = 2
(***************************************************************************)
(* Properties of the benchmark driver.                                     *)
(***************************************************************************)
\* the calls of run_solution the driver is to make, in order: every
\* solution of SOLUTIONS in turn, each with run 1..NUM_RUNS
ExpectedCalls ==
    [k \in 1..(Len(SOLUTIONS) * NUM_RUNS) |->
        <<SOLUTIONS[((k - 1) \div NUM_RUNS) + 1].name, ((k - 1) % NUM_RUNS) + 1>>]

CallsMade == [k \in 1..Len(attempts) |-> <<attempts[k].name, attempts[k].run>>]

IsPrefix(p, q) == Len(p) <= Len(q) /\ \A k \in 1..Len(p) : p[k] = q[k]

FailedAttempts == {k \in 1..Len(attempts) : ~attempts[k].reported}

\* a failed run leaves no record and no time behind
FailedRunsDropped ==
    \A k \in FailedAttempts :
        \A i \in 1..Len(ResultsOf(all_results, attempts[k].name)) :
            ResultsOf(all_results, attempts[k].name)[i].run # attempts[k].run

CallsInOrder ==
    /\ bench_pc # "aborted"
    /\ IsPrefix(CallsMade, ExpectedCalls)
    /\ FailedRunsDropped
    /\ bench_pc \in {"rank", "report", "done"} => CallsMade = ExpectedCalls

\* C11: whatever runs time out, fail to launch or print no usable timing
\* line, such a run is dropped as failed and the driver never aborts: the
\* calls of run_solution are always a prefix of "every solution in turn,
\* runs 1..NUM_RUNS in order", none retried and none skipped, all of them
\* are made before the ranking, and the driver reaches the end of the
\* report-writing step.
C11_EveryRunAttempted == [](CallsInOrder) /\ <>(bench_pc = "done" /\ CallsMade = ExpectedCalls)

\* the driver has finished after more failed runs than one solution has
\* runs: one solution never succeeded and another did
C11_Witness ==
    /\ bench_pc = "done"
    /\ CallsMade = ExpectedCalls
    /\ Cardinality(FailedAttempts) >= NUM_RUNS + 1
    /\ \E n \in 1..Len(SOLUTIONS) : ~HasKey(all_results, SOLUTIONS[n].name)
    /\ all_results # <<>>
\* the attempts of one solution that reported a time, in run order
ReportedOf(name) == SelectSeq(attempts, LAMBDA a : a.name = name /\ a.reported)

\* the times those attempts reported
ReportedTimes(name) == [i \in 1..Len(ReportedOf(name)) |-> ReportedOf(name)[i].ms]

Ranked == bench_pc \in {"report", "done"}

\* one row of the table carries the mean of exactly the successful runs
RowIsMean(row) ==
    /\ row.successful = Len(ResultsOf(all_results, row.name))
    /\ row.successful = Len(ReportedOf(row.name))
    /\ row.successful <= NUM_RUNS
    /\ row.avg.n = Len(ReportedOf(row.name))
    /\ row.avg.sum = SumSeq(ReportedTimes(row.name))
    /\ TimesOf(ResultsOf(all_results, row.name)) = ReportedTimes(row.name)

AscendingByMean(table) ==
    \A i, j \in 1..Len(table) : i < j => ~LessAvg(table[j].avg, table[i].avg)

\* C12: once every run is over, each row of the ranking carries the mean of
\* the times of exactly the solution's successful runs (failed runs add
\* nothing to the sum or the count), its count of successful runs is the
\* number of recorded results and at most NUM_RUNS, the rows are in
\* ascending order of the mean, and the report's table is that ranking.
C12_MeanOfSuccessfulRuns ==
    Ranked =>
        /\ \A i \in 1..Len(solution_averages) : RowIsMean(solution_averages[i])
        /\ AscendingByMean(solution_averages)
        /\ bench_pc = "done" => report.table = solution_averages

\* a finished benchmark whose table the sort has reordered, with a solution
\* that lost a run and whose mean is the time of the other run alone
C12_Witness ==
    /\ bench_pc = "done"
    /\ Len(report.table) >= 2
    /\ \E i, j \in 1..Len(report.table) :
          /\ i < j
          /\ LessAvg(report.table[i].avg, report.table[j].avg)
          /\ \E m, n \in 1..Len(SOLUTIONS) :
                /\ n < m
                /\ SOLUTIONS[m].name = report.table[i].name
                /\ SOLUTIONS[n].name = report.table[j].name
    /\ \E i \in 1..Len(report.table) :
          /\ report.table[i].successful < NUM_RUNS
          /\ \E k \in 1..Len(attempts) :
                /\ attempts[k].name = report.table[i].name
                /\ ~attempts[k].reported
\* C13: in a written report, the block titled 'Example Output (Run 1)' of
\* every detail section holds the output captured from run number 1 of
\* that solution.
C13_ExampleIsRunOne ==
    bench_pc = "done" =>
        \A i \in 1..Len(report.details) :
            report.details[i].example.producer =
                <<report.details[i].name, report.details[i].example_title>>

NamesIn(q) == {q[i].name : i \in 1..Len(q)}

\* the solutions with at least one run that reported a time
SuccessfulSolutions ==
    {SOLUTIONS[n].name : n \in {m \in 1..Len(SOLUTIONS) : ReportedOf(SOLUTIONS[m].name) # <<>>}}

\* every listed solution is listed once and its mean is over at least one time
ListsSuccessful(q) ==
    /\ NamesIn(q) = SuccessfulSolutions
    /\ Len(q) = Cardinality(SuccessfulSolutions)
    /\ \A i \in 1..Len(q) : q[i].avg.n > 0 /\ q[i].successful > 0

\* C14: a solution is in the ranking table, and has a detail section in the
\* report, exactly when at least one of its runs succeeded; a solution
\* whose runs all failed is in neither, and no mean is taken over an empty
\* list of times, so the driver never stops on a division by zero.
C14_ListedIffSucceeded ==
    /\ bench_pc # "aborted"
    /\ Ranked => ListsSuccessful(solution_averages)
    /\ bench_pc = "done" => ListsSuccessful(report.table) /\ ListsSuccessful(report.details)

\* a written report that leaves out a solution whose runs all failed and
\* lists one that lost a run
C14_Witness ==
    /\ bench_pc = "done"
    /\ \E n \in 1..Len(SOLUTIONS) :
          /\ Len(SelectSeq(attempts, LAMBDA a : a.name = SOLUTIONS[n].name)) = NUM_RUNS
          /\ ReportedOf(SOLUTIONS[n].name) = <<>>
          /\ SOLUTIONS[n].name \notin NamesIn(report.table)
          /\ SOLUTIONS[n].name \notin NamesIn(report.details)
    /\ \E n \in 1..Len(SOLUTIONS) :
          /\ Len(ReportedOf(SOLUTIONS[n].name)) \in 1..(NUM_RUNS - 1)
          /\ SOLUTIONS[n].name \in NamesIn(report.table)
          /\ SOLUTIONS[n].name \in NamesIn(report.details)
(***************************************************************************)
(* The identical-pixel fallback of the array bindings.                     *)
(***************************************************************************)
ArrayBindings == {"cv2", "imageio"}

\* the gray_values array a binding computes for the picture
GrayArrayOf(b) ==
    IF b = "cv2" THEN cv2_gray_values(AsArray(picture, TRUE))
    ELSE imageio_gray_values(AsArray(picture, FALSE), dot_mode)

\* the label read off a gray array and nothing else
LabelOfGrays(gs) ==
    IF gs = <<>> THEN MixedPixels
    ELSE IF \A i \in 1..Len(gs) : gs[i] = gs[1]
    THEN IF gs[1] = 0 THEN AllBlack
         ELSE IF gs[1] = 255 THEN AllWhite
         ELSE SingleColor(gs[1])
    ELSE MixedPixels

\* C15: in the cv2 and imageio bindings the identical-pixel fallback never
\* decides a label: pixels that are one identical triple have identical
\* gray values, so the gray-uniformity branch has returned before it, and
\* the label of every picture is the one its gray array alone determines.
C15_FallbackNeverDecides ==
    \A b \in ArrayBindings :
        Done(b) =>
            /\ label[b] = LabelOfGrays(GrayArrayOf(b))
            /\ (NonEmpty /\ ColourUniform) =>
                  \A i \in 1..Len(GrayArrayOf(b)) : GrayArrayOf(b)[i] = GrayArrayOf(b)[1]

\* both bindings have classified a colour picture whose gray values differ,
\* so the fallback ran, and called it mixed
C15_Witness ==
    /\ \A b \in ArrayBindings :
          /\ Done(b)
          /\ \E i \in 1..Len(GrayArrayOf(b)) : GrayArrayOf(b)[i] # GrayArrayOf(b)[1]
          /\ label[b] = MixedPixels
    /\ picture.mode # "L"
    /\ Len(picture.data) >= 2
====
